---------------------------- MODULE Spec2Model ----------------------------
(***************************************************************************)
(* Email Spam Score Checker: the React client (App.handleAnalyze, the      *)
(* useHistory hook and its localStorage copy) together with the analysis   *)
(* engine the client posts to.  Texts are sequences of one-character       *)
(* strings, so trimming, the header regex and the engine's parsing are     *)
(* computed on the characters themselves.                                   *)
(***************************************************************************)
EXTENDS Integers, Sequences, FiniteSets, TLC

VARIABLES
    mounted,    \* the useHistory mount effect has run
    mode,       \* App state: 'content' | 'headers'
    raw,        \* App state: the textarea's text
    loading,    \* App state
    error,      \* App state: ErrorState, None or Some(message)
    result,     \* App state: None or Some(AnalysisResponse)
    history,    \* useHistory state: HistoryEntry[]
    storage,    \* localStorage item 'spam-checker-history': None or Some(string)
    pending,    \* handleAnalyze calls suspended at `await axios.post`
    nextId,     \* entries created so far (crypto.randomUUID / new Date())
    answered    \* the request the current result answers (history variable)

vars == << mounted, mode, raw, loading, error, result, history, storage,
           pending, nextId, answered >>

-----------------------------------------------------------------------------
(* Bounds of the model.                                                     *)

\* longest text typed into the textarea in the validation specification
MaxLen == 3
\* successful analyses per session (caps the id counter): in the client
\* specifications, and in the one started on an earlier session's history
MaxAnalyses == 1
MaxAdded == 2
\* handleAnalyze calls that may be suspended at once
MaxPending == 2
\* largest point value of one rule, and rules per run, in the aggregator
\* specification
MaxPoints == 55
MaxRules == 2

-----------------------------------------------------------------------------
(* Optional values (null | T).                                              *)

None == << >>
Some(x) == << x >>
IsSome(o) == o # << >>
Get(o) == o[1]

-----------------------------------------------------------------------------
(* Characters and texts.                                                    *)

Letters ==
    { "a", "b", "c", "d", "e", "f", "g", "h", "i", "j", "k", "l", "m",
      "n", "o", "p", "q", "r", "s", "t", "u", "v", "w", "x", "y", "z",
      "A", "B", "C", "D", "E", "F", "G", "H", "I", "J", "K", "L", "M",
      "N", "O", "P", "Q", "R", "S", "T", "U", "V", "W", "X", "Y", "Z" }

Digits == { "0", "1", "2", "3", "4", "5", "6", "7", "8", "9" }

\* \w of a JavaScript regular expression
WordChars == Letters \cup Digits \cup { "_" }

\* what String.prototype.trim removes (the ones a textarea can hold here)
WhiteSpace == { " ", "\t", "\n", "\r", "\f" }

\* where ^ matches under the m flag
LineTerminators == { "\n", "\r" }

Take(s, n) == SubSeq(s, 1, IF Len(s) < n THEN Len(s) ELSE n)
Drop(s, n) == SubSeq(s, n + 1, Len(s))

RECURSIVE TrimStart(_)
TrimStart(s) ==
    IF s # << >> /\ Head(s) \in WhiteSpace THEN TrimStart(Tail(s)) ELSE s

RECURSIVE TrimEnd(_)
TrimEnd(s) ==
    IF s # << >> /\ s[Len(s)] \in WhiteSpace
    THEN TrimEnd(SubSeq(s, 1, Len(s) - 1))
    ELSE s

\* a trim that strips blanks only
RECURSIVE TrimSpaces(_)
TrimSpaces(s) ==
    IF s # << >> /\ Head(s) = " " THEN TrimSpaces(Tail(s))
    ELSE IF s # << >> /\ s[Len(s)] = " " THEN TrimSpaces(SubSeq(s, 1, Len(s) - 1))
    ELSE s

\* raw.trim()
Trim(s) == TrimEnd(TrimStart(s))

\* the length of the longest run of [\w-] characters of s starting at i
RECURSIVE TokenRun(_, _)
TokenRun(s, i) ==
    IF i <= Len(s) /\ (s[i] \in WordChars \/ s[i] = "-")
    THEN 1 + TokenRun(s, i + 1)
    ELSE 0

\* /^[\w-]+:/ tried at position i (the greedy run, then a colon)
HeaderMatchAt(s, i) ==
    LET n == TokenRun(s, i)
    IN  n >= 1 /\ i + n <= Len(s) /\ s[i + n] = ":"

\* the test without the m flag: ^ matches at the start of the text only
HeaderTestFirstLine(s) == s # << >> /\ HeaderMatchAt(s, 1)

\* /^[\w-]+:/m.test(raw)
HeaderTest(s) ==
    \E i \in 1..Len(s) :
        /\ i = 1 \/ s[i - 1] \in LineTerminators
        /\ HeaderMatchAt(s, i)

-----------------------------------------------------------------------------
(* The sample emails of the client.                                         *)

Spam1 ==
    << "F", "r", "o", "m", ":", " ", "w", "i", "n", "n", "e", "r", "@", "m",
       "a", "i", "l", "i", "n", "a", "t", "o", "r", ".", "c", "o", "m", "\n",
       "S", "u", "b", "j", "e", "c", "t", ":", " ", "W", "I", "N", " ", "B",
       "I", "G", " ", "N", "O", "W", "!", "!", "!", "\n", "\n", "C", "l",
       "a", "i", "m", " ", "n", "o", "w", " ", "f", "o", "r", " ", "f", "r",
       "e", "e", " ", "m", "o", "n", "e", "y", "!", "!", "!", " ", "V", "i",
       "s", "i", "t", " ", "h", "t", "t", "p", ":", "/", "/", "b", "i", "t",
       ".", "l", "y", "/", "s", "p", "a", "m", "m", "y" >>

Spam2 ==
    << "F", "r", "o", "m", ":", " ", "p", "r", "o", "m", "o", "@", "u", "n",
       "k", "n", "o", "w", "n", "-", "d", "o", "m", "a", "i", "n", ".", "b",
       "i", "z", "\n", "S", "u", "b", "j", "e", "c", "t", ":", " ", "L", "I",
       "M", "I", "T", "E", "D", " ", "O", "F", "F", "E", "R", "\n", "\n",
       "C", "h", "e", "a", "p", " ", "m", "e", "d", "s", " ", "a", "v", "a",
       "i", "l", "a", "b", "l", "e", " ", "a", "t", " ", "h", "t", "t", "p",
       ":", "/", "/", "c", "h", "e", "a", "p", "-", "m", "e", "d", "s", ".",
       "e", "x", "a", "m", "p", "l", "e" >>

Spam3 ==
    << "F", "r", "o", "m", ":", " ", "f", "a", "k", "e", "b", "a", "n", "k",
       "@", "s", "e", "c", "u", "r", "e", "-", "a", "l", "e", "r", "t", ".",
       "c", "o", "m", "\n", "S", "u", "b", "j", "e", "c", "t", ":", " ", "A",
       "C", "C", "O", "U", "N", "T", " ", "L", "O", "C", "K", "E", "D", "\n",
       "\n", "C", "l", "i", "c", "k", " ", "h", "e", "r", "e", " ", "t", "o",
       " ", "r", "e", "s", "t", "o", "r", "e", " ", "a", "c", "c", "e", "s",
       "s", ":", " ", "h", "t", "t", "p", ":", "/", "/", "t", "i", "n", "y",
       "u", "r", "l", ".", "c", "o", "m", "/", "p", "h", "i", "s", "h" >>

Spam4 ==
    << "F", "r", "o", "m", ":", " ", "c", "a", "s", "i", "n", "o", "@", "v",
       "i", "p", "g", "a", "m", "e", "s", ".", "c", "o", "m", "\n", "S", "u",
       "b", "j", "e", "c", "t", ":", " ", "C", "a", "s", "i", "n", "o", " ",
       "B", "O", "N", "U", "S", "\n", "\n", "P", "l", "a", "y", " ", "n",
       "o", "w", " ", "a", "n", "d", " ", "w", "i", "n", " ", "b", "i", "g",
       "!", "!", "!" >>

Legit ==
    << "F", "r", "o", "m", ":", " ", "s", "u", "p", "p", "o", "r", "t", "@",
       "t", "r", "u", "s", "t", "e", "d", ".", "c", "o", "m", "\n", "S", "u",
       "b", "j", "e", "c", "t", ":", " ", "M", "e", "e", "t", "i", "n", "g",
       " ", "N", "o", "t", "e", "s", "\n", "\n", "H", "i", " ", "t", "e",
       "a", "m", ",", "\n", "H", "e", "r", "e", " ", "a", "r", "e", " ", "t",
       "h", "e", " ", "m", "e", "e", "t", "i", "n", "g", " ", "n", "o", "t",
       "e", "s", " ", "a", "t", "t", "a", "c", "h", "e", "d", ".", " ", "T",
       "h", "a", "n", "k", "s", "!" >>

samples ==
    [ spam1 |-> Spam1, spam2 |-> Spam2, spam3 |-> Spam3, spam4 |-> Spam4,
      legit |-> Legit ]

-----------------------------------------------------------------------------
(* The analysis engine (the backend behind POST /analyze).  Its source is   *)
(* not part of the client sources; it is written here from its             *)
(* specification, sections 4.1 to 4.7, and from the README's sample.       *)

Modes == { "content", "headers" }
Statuses == { "pass", "fail", "missing" }
Categories == { "SAFE", "SUSPICIOUS", "LIKELY_SPAM" }

UpperCase ==
    << "A", "B", "C", "D", "E", "F", "G", "H", "I", "J", "K", "L", "M",
       "N", "O", "P", "Q", "R", "S", "T", "U", "V", "W", "X", "Y", "Z" >>
LowerCase ==
    << "a", "b", "c", "d", "e", "f", "g", "h", "i", "j", "k", "l", "m",
       "n", "o", "p", "q", "r", "s", "t", "u", "v", "w", "x", "y", "z" >>

Lower(c) ==
    IF \E i \in 1..Len(UpperCase) : UpperCase[i] = c
    THEN LowerCase[CHOOSE i \in 1..Len(UpperCase) : UpperCase[i] = c]
    ELSE c

LowerText(s) == [ i \in 1..Len(s) |-> Lower(s[i]) ]

\* sub occurs in s
Contains(s, sub) ==
    \E i \in 1..(Len(s) - Len(sub) + 1) :
        SubSeq(s, i, i + Len(sub) - 1) = sub

\* the index of the first c in s, or 0
RECURSIVE IndexFrom(_, _, _)
IndexFrom(s, c, i) ==
    IF i > Len(s) THEN 0
    ELSE IF s[i] = c THEN i
    ELSE IndexFrom(s, c, i + 1)

IndexOf(s, c) == IndexFrom(s, c, 1)

\* s split at every "\n"
RECURSIVE SplitLines(_)
SplitLines(s) ==
    LET n == IndexOf(s, "\n")
    IN  IF n = 0 THEN << s >>
        ELSE << SubSeq(s, 1, n - 1) >> \o SplitLines(Drop(s, n))

IsBlankLine(l) == Trim(l) = << >>

\* the index of the first blank line of ls, or Len(ls) + 1
RECURSIVE FirstBlank(_, _)
FirstBlank(ls, i) ==
    IF i > Len(ls) \/ IsBlankLine(ls[i]) THEN i ELSE FirstBlank(ls, i + 1)

\* 4.1: the lines that are headers: all of them in mode headers, those before
\* the first blank line in mode content
HeaderLines(text, m) ==
    LET ls == SplitLines(text)
    IN  IF m = "headers" THEN ls ELSE SubSeq(ls, 1, FirstBlank(ls, 1) - 1)

\* s with its elements joined by "\n"
RECURSIVE JoinLines(_)
JoinLines(ls) ==
    IF ls = << >> THEN << >>
    ELSE IF Len(ls) = 1 THEN ls[1]
    ELSE ls[1] \o << "\n" >> \o JoinLines(Tail(ls))

\* 4.1: the body: empty in mode headers, what follows the first blank line
\* in mode content
BodyText(text, m) ==
    LET ls == SplitLines(text)
    IN  IF m = "headers" THEN << >>
        ELSE JoinLines(SubSeq(ls, FirstBlank(ls, 1) + 1, Len(ls)))

\* 4.1: the header mapping as (key, value) pairs in the order read; keys are
\* lower-cased, continuation lines are folded into the previous value, other
\* lines are ignored
RECURSIVE FoldHeaders(_, _)
FoldHeaders(ls, acc) ==
    IF ls = << >> THEN acc
    ELSE LET l == Head(ls)
             n == TokenRun(l, 1)
         IN  IF HeaderMatchAt(l, 1)
             THEN FoldHeaders(Tail(ls),
                      Append(acc, [ key |-> LowerText(SubSeq(l, 1, n)),
                                    value |-> Trim(Drop(l, n + 1)) ]))
             ELSE IF l # << >> /\ Head(l) \in WhiteSpace /\ acc # << >>
             THEN FoldHeaders(Tail(ls),
                      [ acc EXCEPT ![Len(acc)].value =
                            @ \o << " " >> \o Trim(l) ])
             ELSE FoldHeaders(Tail(ls), acc)

ParseHeaders(text, m) == FoldHeaders(HeaderLines(text, m), << >>)

HasHeader(hs, k) == \E i \in 1..Len(hs) : hs[i].key = k

\* the value of header k, lower-cased for matching; the last one wins on
\* duplicates, and an absent header reads as the empty text
HeaderValue(hs, k) ==
    LET last == CHOOSE i \in 1..Len(hs) :
                    /\ hs[i].key = k
                    /\ \A j \in (i + 1)..Len(hs) : hs[j].key # k
    IN  IF HasHeader(hs, k) THEN LowerText(hs[last].value) ELSE << >>

KeyReceivedSpf == << "r", "e", "c", "e", "i", "v", "e", "d", "-", "s", "p", "f" >>
KeyAuthResults ==
    << "a", "u", "t", "h", "e", "n", "t", "i", "c", "a", "t", "i", "o", "n",
       "-", "r", "e", "s", "u", "l", "t", "s" >>
KeyDkimSignature ==
    << "d", "k", "i", "m", "-", "s", "i", "g", "n", "a", "t", "u", "r", "e" >>
KeySubject == << "s", "u", "b", "j", "e", "c", "t" >>

WordPass == << "p", "a", "s", "s" >>
SpfIs == << "s", "p", "f", "=" >>
DkimIs == << "d", "k", "i", "m", "=" >>
DmarcIs == << "d", "m", "a", "r", "c", "=" >>

\* 4.3: which authentication signals the headers carry at all
SpfPresent(hs) ==
    HasHeader(hs, KeyReceivedSpf) \/ Contains(HeaderValue(hs, KeyAuthResults), SpfIs)
DkimPresent(hs) == HasHeader(hs, KeyDkimSignature)
DmarcPresent(hs) == Contains(HeaderValue(hs, KeyAuthResults), DmarcIs)

\* 4.3: the three statuses
SpfStatus(hs) ==
    IF ~SpfPresent(hs) THEN "missing"
    ELSE IF \/ Contains(HeaderValue(hs, KeyAuthResults), SpfIs \o WordPass)
            \/ Take(HeaderValue(hs, KeyReceivedSpf), 4) = WordPass
         THEN "pass"
         ELSE "fail"

DkimStatus(hs) ==
    IF ~DkimPresent(hs) THEN "missing"
    ELSE IF Contains(HeaderValue(hs, KeyAuthResults), DkimIs \o WordPass)
         THEN "pass"
         ELSE "fail"

DmarcStatus(hs) ==
    IF ~DmarcPresent(hs) THEN "missing"
    ELSE IF Contains(HeaderValue(hs, KeyAuthResults), DmarcIs \o WordPass)
         THEN "pass"
         ELSE "fail"

HeaderAuthenticator(hs) ==
    [ spf |-> SpfStatus(hs), dkim |-> DkimStatus(hs), dmarc |-> DmarcStatus(hs) ]

\* 4.2: the URLs of the body, first occurrence first, duplicates dropped
SchemeHttp == << "h", "t", "t", "p", ":", "/", "/" >>
SchemeHttps == << "h", "t", "t", "p", "s", ":", "/", "/" >>

StartsAt(s, i, pre) ==
    i + Len(pre) - 1 <= Len(s) /\ SubSeq(s, i, i + Len(pre) - 1) = pre

RECURSIVE UrlRun(_, _)
UrlRun(s, i) ==
    IF i <= Len(s) /\ s[i] \notin WhiteSpace THEN 1 + UrlRun(s, i + 1) ELSE 0

InSeq(x, s) == \E i \in 1..Len(s) : s[i] = x

RECURSIVE LinksFrom(_, _, _)
LinksFrom(s, i, acc) ==
    IF i > Len(s) THEN acc
    ELSE IF StartsAt(s, i, SchemeHttp) \/ StartsAt(s, i, SchemeHttps)
    THEN LET n == UrlRun(s, i)
             url == SubSeq(s, i, i + n - 1)
         IN  LinksFrom(s, i + n, IF InSeq(url, acc) THEN acc ELSE Append(acc, url))
    ELSE LinksFrom(s, i + 1, acc)

ExtractLinks(body) == LinksFrom(body, 1, << >>)

\* 4.5: the points the specification and the README state
KeywordPoints == 14
PunctuationPoints == 15
AuthPoints == 15

TermFreeMoney == << "f", "r", "e", "e", " ", "m", "o", "n", "e", "y" >>

\* SPAM_KEYWORDS: the subject or the body holds a term of the lexicon
HasSpamKeyword(subject, body) ==
    Contains(LowerText(subject), TermFreeMoney) \/ Contains(LowerText(body), TermFreeMoney)

\* EXCESSIVE_PUNCTUATION: three or more consecutive "!" or "?"
HasPunctuationRun(s) ==
    \E i \in 1..(Len(s) - 2) : \A j \in i..(i + 2) : s[j] \in { "!", "?" }

Rule(n, p, i) == [ name |-> n, points |-> p, info |-> i ]

AuthRule(status, missingName, failName, what) ==
    IF status = "missing" THEN << Rule(missingName, AuthPoints, "Missing " \o what) >>
    ELSE IF status = "fail" THEN << Rule(failName, AuthPoints, "Failed " \o what) >>
    ELSE << >>

\* the rule evaluators, run in their fixed order
RunRules(subject, body, hd) ==
    (IF HasSpamKeyword(subject, body)
     THEN << Rule("SPAM_KEYWORDS", KeywordPoints, "Found suspicious terms") >>
     ELSE << >>)
    \o (IF HasPunctuationRun(subject) \/ HasPunctuationRun(body)
        THEN << Rule("EXCESSIVE_PUNCTUATION", PunctuationPoints,
                     "Found exclamation marks") >>
        ELSE << >>)
    \o AuthRule(hd.spf, "NO_SPF", "AUTH_FAIL_SPF", "SPF record")
    \o AuthRule(hd.dkim, "NO_DKIM", "AUTH_FAIL_DKIM", "DKIM signature")
    \o AuthRule(hd.dmarc, "NO_DMARC", "AUTH_FAIL_DMARC", "DMARC policy")

\* 4.6: the score aggregator
RECURSIVE SumPoints(_)
SumPoints(rules) ==
    IF rules = << >> THEN 0 ELSE Head(rules).points + SumPoints(Tail(rules))

Clamp(n) == IF n < 0 THEN 0 ELSE IF n > 100 THEN 100 ELSE n

\* the thresholds with the lower boundary on the wrong side
CategorizeInclusive(score) ==
    IF score <= 30 THEN "SAFE"
    ELSE IF score < 60 THEN "SUSPICIOUS"
    ELSE "LIKELY_SPAM"

Categorize(score) ==
    IF score < 30 THEN "SAFE"
    ELSE IF score < 60 THEN "SUSPICIOUS"
    ELSE "LIKELY_SPAM"

Aggregate(rules, links, hd) ==
    LET score == Clamp(SumPoints(rules))
    IN  [ score |-> score,
          category |-> Categorize(score),
          rules_triggered |-> rules,
          links |-> links,
          headers |-> hd ]

\* the README's sample output for its example input (which is samples.spam1)
SampleOutput ==
    [ score |-> 72,
      category |-> "LIKELY_SPAM",
      rules_triggered |->
          << Rule("SPAM_KEYWORDS", 14, "Found suspicious terms: free money"),
             Rule("EXCESSIVE_PUNCTUATION", 15, "Found 6 exclamation marks"),
             Rule("NO_DKIM", 15, "Missing DKIM signature") >>,
      links |-> << SubSeq(Spam1, 88, 107) >>,
      headers |-> [ spf |-> "fail", dkim |-> "missing", dmarc |-> "pass" ] ]

\* 4.7: the orchestrator's pipeline
Pipeline(text, m) ==
    LET hs == ParseHeaders(text, m)
        body == BodyText(text, m)
        hd == HeaderAuthenticator(hs)
    IN  Aggregate(RunRules(HeaderValue(hs, KeySubject), body, hd),
                  ExtractLinks(body), hd)

\* the verdict for a text: the README's documented output for its example
\* input, the pipeline's elsewhere
Analyze(text, m) == IF text = Spam1 THEN SampleOutput ELSE Pipeline(text, m)

\* 4.1, 4.7: what the engine refuses
EngineRejects(text, m) ==
    \/ Trim(text) = << >>
    \/ /\ m = "headers"
       /\ LET ls == SplitLines(text)
          IN  \A i \in 1..Len(ls) : ~HeaderMatchAt(ls[i], 1)

\* the mode the engine analyses a request under: the request's flag, and
\* either mode when the request carries none
EngineModes(request) ==
    IF "mode" \in DOMAIN request THEN { request.mode } ELSE Modes

-----------------------------------------------------------------------------
(* JSON.stringify and JSON.parse of a history, as the tokens of the text.   *)

Punct(c) == [ kind |-> "punct", num |-> 0, str |-> c ]
Num(n) == [ kind |-> "number", num |-> n, str |-> "" ]
Str(s) == [ kind |-> "string", num |-> 0, str |-> s ]

EntryTokens(e) ==
    << Punct("{"), Num(e.id), Num(e.timestamp), Str(e.category), Num(e.score),
       Str(e.inputType), Punct("}") >>

RECURSIVE EntriesTokens(_)
EntriesTokens(h) ==
    IF h = << >> THEN << >> ELSE EntryTokens(Head(h)) \o EntriesTokens(Tail(h))

\* JSON.stringify(updated)
Stringify(h) == << Punct("[") >> \o EntriesTokens(h) \o << Punct("]") >>

EntryAt(s, k) ==
    [ id |-> s[k + 1].num, timestamp |-> s[k + 2].num, category |-> s[k + 3].str,
      score |-> s[k + 4].num, inputType |-> s[k + 5].str ]

\* JSON.parse(stored) returns rather than throws
ParseOk(s) ==
    /\ Len(s) >= 2
    /\ s[1] = Punct("[") /\ s[Len(s)] = Punct("]")
    /\ (Len(s) - 2) % 7 = 0
    /\ \A g \in 0..((Len(s) - 2) \div 7 - 1) :
          LET k == 1 + 7 * g
          IN  /\ s[k + 1] = Punct("{") /\ s[k + 7] = Punct("}")
              /\ s[k + 2].kind = "number" /\ s[k + 3].kind = "number"
              /\ s[k + 4].kind = "string" /\ s[k + 5].kind = "number"
              /\ s[k + 6].kind = "string"

\* JSON.parse(stored)
Parse(s) == [ g \in 1..((Len(s) - 2) \div 7) |-> EntryAt(s, 1 + 7 * (g - 1) + 1) ]

-----------------------------------------------------------------------------
(* useHistory.                                                              *)

HISTORY_LIMIT == 20

\* a history of n entries an earlier session left behind, newest first
PriorHistory(n) ==
    [ k \in 1..n |->
        [ id |-> 0 - k, timestamp |-> 0 - k, category |-> "SUSPICIOUS",
          score |-> 45, inputType |-> "content" ] ]

\* what localStorage may hold when the page loads: nothing, or a text that
\* is not JSON
StoredItems == { None, Some(<< Punct("{") >>) }

\* or the history of an earlier session, one short of the limit or at it
StoredHistories ==
    { Some(Stringify(PriorHistory(HISTORY_LIMIT - 1))),
      Some(Stringify(PriorHistory(HISTORY_LIMIT))) }

\* the mount effect of useHistory
LoadHistory(stored, current) ==
    IF IsSome(stored) /\ Get(stored) # << >> /\ ParseOk(Get(stored))
    THEN Parse(Get(stored))
    ELSE current

\* the update without its slice
UpdatedUnbounded(entry, captured) == << entry >> \o captured

\* updated = [entry, ...history].slice(0, 20)
Updated(entry, captured) == Take(<< entry >> \o captured, HISTORY_LIMIT)

-----------------------------------------------------------------------------
(* App.                                                                     *)

\* the body of the POST
Request(text, m) == [ raw |-> text ]

\* a button that is never disabled
ButtonAlwaysEnabled == FALSE

\* <button onClick={handleAnalyze} disabled={loading}>
ButtonDisabled == loading

\* texts pasted into the textarea
TextBlank == << " ", "\n" >>
TextPlain == << "h", "i" >>
TextAuthenticated ==
    << "R", "e", "c", "e", "i", "v", "e", "d", "-", "S", "P", "F", ":", " ",
       "p", "a", "s", "s", "\n", "D", "K", "I", "M", "-", "S", "i", "g", "n",
       "a", "t", "u", "r", "e", ":", " ", "v", "=", "1", "\n", "A", "u", "t",
       "h", "e", "n", "t", "i", "c", "a", "t", "i", "o", "n", "-", "R", "e",
       "s", "u", "l", "t", "s", ":", " ", "d", "k", "i", "m", "=", "p", "a",
       "s", "s", " ", "d", "m", "a", "r", "c", "=", "f", "a", "i", "l", "\n",
       "S", "u", "b", "j", "e", "c", "t", ":", " ", "h", "i", "\n", "\n",
       "h", "e", "l", "l", "o" >>

PastedTexts == { TextBlank, TextPlain, TextAuthenticated }

\* the characters typed in the validation specification, and the texts
Alphabet == { "a", "-", ":", " ", "\n" }
TypedTexts == UNION { [ 1..k -> Alphabet ] : k \in 0..MaxLen }

Init ==
    /\ mounted = FALSE
    /\ mode = "content"
    /\ raw = samples.legit
    /\ loading = FALSE
    /\ error = None
    /\ result = None
    /\ history = << >>
    /\ storage \in StoredItems
    /\ pending = << >>
    /\ nextId = 0
    /\ answered = None

\* useEffect(() => {...}, []) of useHistory
Mount ==
    /\ ~mounted
    /\ mounted' = TRUE
    /\ history' = LoadHistory(storage, history)
    /\ UNCHANGED << mode, raw, loading, error, result, storage, pending, nextId,
                    answered >>

\* onClick={() => setMode(...)}
SetMode(m) ==
    /\ mounted
    /\ mode' = m
    /\ UNCHANGED << mounted, raw, loading, error, result, history, storage,
                    pending, nextId, answered >>

\* onChange={(e) => setRaw(e.target.value)}
SetRaw(text) ==
    /\ mounted
    /\ raw' = text
    /\ UNCHANGED << mounted, mode, loading, error, result, history, storage,
                    pending, nextId, answered >>

\* the sample buttons: onClick={() => setInput(val)}
LoadSample(k) == SetRaw(samples[k])

\* handleAnalyze up to its await
Click ==
    /\ mounted
    /\ ~ButtonDisabled
    /\ result' = None
    /\ answered' = None
    /\ IF Trim(raw) = << >>
       THEN /\ error' = Some("Input cannot be empty")
            /\ UNCHANGED << loading, pending >>
       ELSE IF mode = "headers" /\ ~HeaderTest(raw)
       THEN /\ error' = Some("Invalid header format")
            /\ UNCHANGED << loading, pending >>
       ELSE /\ error' = None
            /\ loading' = TRUE
            /\ Len(pending) < MaxPending
            /\ pending' = Append(pending,
                   [ request |-> Request(raw, mode), mode |-> mode,
                     history |-> history ])
    /\ UNCHANGED << mounted, mode, raw, history, storage, nextId >>

Remove(s, i) == SubSeq(s, 1, i - 1) \o SubSeq(s, i + 1, Len(s))

\* the authentication signals a text carries under a mode
SignalsPresent(text, m) ==
    LET hs == ParseHeaders(text, m)
    IN  [ spf |-> SpfPresent(hs), dkim |-> DkimPresent(hs), dmarc |-> DmarcPresent(hs) ]

\* the await resolves: setResult, addEntry, finally setLoading(false)
SettleSuccess(i, m) ==
    /\ i \in 1..Len(pending)
    /\ m \in EngineModes(pending[i].request)
    /\ ~EngineRejects(pending[i].request.raw, m)
    /\ LET call == pending[i]
           data == Analyze(call.request.raw, m)
           entry == [ id |-> nextId + 1, timestamp |-> nextId + 1,
                      category |-> data.category, score |-> data.score,
                      inputType |-> call.mode ]
           updated == Updated(entry, call.history)
       IN  /\ result' = Some(data)
           /\ answered' = Some(SignalsPresent(call.request.raw, m))
           /\ history' = updated
           /\ storage' = Some(Stringify(updated))
    /\ nextId' = nextId + 1
    /\ loading' = FALSE
    /\ pending' = Remove(pending, i)
    /\ UNCHANGED << mounted, mode, raw, error >>

\* the rejection handled without the finally block
SettleWithoutFinally(i, message) ==
    /\ i \in 1..Len(pending)
    /\ error' = Some(message)
    /\ pending' = Remove(pending, i)
    /\ UNCHANGED << mounted, mode, raw, loading, result, history, storage, nextId,
                    answered >>

\* the await rejects: setError, finally setLoading(false)
SettleWith(i, message) ==
    /\ i \in 1..Len(pending)
    /\ error' = Some(message)
    /\ loading' = FALSE
    /\ pending' = Remove(pending, i)
    /\ UNCHANGED << mounted, mode, raw, result, history, storage, nextId,
                    answered >>

\* an error response carrying the engine's detail
SettleRejected(i, m) ==
    /\ i \in 1..Len(pending)
    /\ m \in EngineModes(pending[i].request)
    /\ EngineRejects(pending[i].request.raw, m)
    /\ SettleWith(i, IF Trim(pending[i].request.raw) = << >>
                     THEN "Input cannot be empty"
                     ELSE "No header lines found")

\* an error response without a detail
SettleFailed(i) == SettleWith(i, "Analysis failed")

\* no response at all
SettleUnreachable(i) == SettleWith(i, "Backend timeout or unreachable")

Next ==
    \/ Mount
    \/ \E m \in Modes : SetMode(m)
    \/ \E t \in PastedTexts : SetRaw(t)
    \/ \E k \in DOMAIN samples : LoadSample(k)
    \/ Click
    \/ \E i \in 1..MaxPending, m \in Modes : nextId < MaxAnalyses /\ SettleSuccess(i, m)
    \/ \E i \in 1..MaxPending, m \in Modes : SettleRejected(i, m)
    \/ \E i \in 1..MaxPending : SettleFailed(i)
    \/ \E i \in 1..MaxPending : SettleUnreachable(i)

Spec == Init /\ [][Next]_vars

-----------------------------------------------------------------------------
(* The same client started on whatever an earlier session left in           *)
(* localStorage, a full history included.                                   *)

InitHistory ==
    /\ mounted = FALSE
    /\ mode = "content"
    /\ raw = samples.legit
    /\ loading = FALSE
    /\ error = None
    /\ result = None
    /\ history = << >>
    /\ storage \in StoredItems \cup StoredHistories
    /\ pending = << >>
    /\ nextId = 0
    /\ answered = None

NextHistory ==
    \/ Mount
    \/ \E m \in Modes : SetMode(m)
    \/ \E t \in { TextBlank, TextPlain } : SetRaw(t)
    \/ \E k \in { "spam1", "legit" } : LoadSample(k)
    \/ Click
    \/ \E i \in 1..MaxPending, m \in Modes : nextId < MaxAdded /\ SettleSuccess(i, m)
    \/ \E i \in 1..MaxPending, m \in Modes : SettleRejected(i, m)
    \/ \E i \in 1..MaxPending : SettleFailed(i)
    \/ \E i \in 1..MaxPending : SettleUnreachable(i)

SpecHistory == InitHistory /\ [][NextHistory]_vars

-----------------------------------------------------------------------------
(* The client with every short text typed into the textarea, in either     *)
(* mode.                                                                    *)

InitValidate ==
    /\ mounted = TRUE
    /\ mode \in Modes
    /\ raw \in TypedTexts
    /\ loading = FALSE
    /\ error = None
    /\ result = None
    /\ history = << >>
    /\ storage = None
    /\ pending = << >>
    /\ nextId = 0
    /\ answered = None

NextValidate ==
    \/ \E m \in Modes : SetMode(m)
    \/ Click
    \/ \E i \in 1..MaxPending, m \in Modes : nextId < MaxAnalyses /\ SettleSuccess(i, m)
    \/ \E i \in 1..MaxPending, m \in Modes : SettleRejected(i, m)
    \/ \E i \in 1..MaxPending : SettleFailed(i)
    \/ \E i \in 1..MaxPending : SettleUnreachable(i)

SpecValidate == InitValidate /\ [][NextValidate]_vars

-----------------------------------------------------------------------------
(* The score aggregator on every short list of triggered rules.             *)

NoHeaders == [ spf |-> "missing", dkim |-> "missing", dmarc |-> "missing" ]

InitAggregate ==
    /\ mounted = TRUE
    /\ mode = "content"
    /\ raw = samples.legit
    /\ loading = FALSE
    /\ error = None
    /\ result = Some(Aggregate(<< >>, << >>, NoHeaders))
    /\ history = << >>
    /\ storage = None
    /\ pending = << >>
    /\ nextId = 0
    /\ answered = None

\* one more evaluator triggers, with p points, and the verdict is assembled
Trigger(p) ==
    /\ Len(Get(result).rules_triggered) < MaxRules
    /\ result' = Some(Aggregate(Append(Get(result).rules_triggered, Rule("RULE", p, "")),
                                << >>, NoHeaders))
    /\ UNCHANGED << mounted, mode, raw, loading, error, history, storage,
                    pending, nextId, answered >>

NextAggregate == \E p \in 0..MaxPoints : Trigger(p)

SpecAggregate == InitAggregate /\ [][NextAggregate]_vars

-----------------------------------------------------------------------------
(* Properties.                                                              *)

\* every character of s is white space
Blank(s) == \A i \in 1..Len(s) : s[i] \in WhiteSpace

\* some line of s starts with one or more word characters or hyphens
\* followed by a colon
HasTokenLine(s) ==
    \E i \in 1..Len(s), j \in 1..Len(s) :
        /\ i = 1 \/ s[i - 1] \in LineTerminators
        /\ i < j /\ s[j] = ":"
        /\ \A k \in i..(j - 1) : s[k] \in WordChars \cup { "-" }

NothingSent ==
    /\ pending' = pending /\ loading' = loading
    /\ history' = history /\ storage' = storage /\ nextId' = nextId

Min(a, b) == IF a < b THEN a ELSE b

\* C1: an analysis attempt on an empty or white-space-only text, in either
\* mode, sets an error message, leaves result null, sends no request and
\* adds no history entry.
C1_BlankInputIsRejected ==
    [][ (Click /\ Blank(raw)) =>
            (IsSome(error') /\ result' = None /\ NothingSent) ]_vars

C1_Witness ==
    /\ Blank(raw) /\ raw # << >> /\ mode = "headers"
    /\ error = Some("Input cannot be empty")
    /\ result = None /\ pending = << >> /\ ~loading

\* C2: in mode headers an attempt on a text none of whose lines matches the
\* token: pattern sets an error, sends no request, leaves result null and the
\* history unchanged; a text with a matching line passes the check and is
\* sent.
C2_HeadersModeNeedsTokenLine ==
    [][ (Click /\ mode = "headers") =>
            /\ ~HasTokenLine(raw) =>
                   (IsSome(error') /\ result' = None /\ NothingSent)
            /\ HasTokenLine(raw) =>
                   /\ error' = None
                   /\ Len(pending') = Len(pending) + 1
                   /\ SubSeq(pending', 1, Len(pending)) = pending
                   /\ pending'[Len(pending')].request.raw = raw
                   /\ loading' ]_vars

C2_Witness ==
    /\ mode = "headers" /\ ~Blank(raw) /\ ~HasTokenLine(raw)
    /\ \E i \in 1..Len(raw) : raw[i] = ":"
    /\ error = Some("Invalid header format")
    /\ result = None /\ pending = << >>

\* C3: every request submitted to the engine carries the raw text and the
\* input-mode flag selected when it was submitted.
C3_RequestCarriesMode ==
    \A i \in 1..Len(pending) :
        /\ DOMAIN pending[i].request = { "raw", "mode" }
        /\ pending[i].request.mode = pending[i].mode

\* C4: the score of every AnalysisResponse is the sum of the points of its
\* rules_triggered clamped to [0, 100], the README's sample included.
C4_ScoreIsClampedSum ==
    IsSome(result) =>
        LET r == Get(result)
        IN  /\ r.score = Clamp(SumPoints(r.rules_triggered))
            /\ 0 <= r.score /\ r.score <= 100

\* C5: spf, dkim and dmarc are each one of pass, fail, missing; a status is
\* missing when its signal is absent from the analysed text and fail only
\* when it is present, the README's sample included.
C5_StatusesFollowSignals ==
    IsSome(result) =>
        LET hd == Get(result).headers
            present == Get(answered)
        IN  /\ DOMAIN hd = { "spf", "dkim", "dmarc" }
            /\ \A k \in DOMAIN hd :
                  /\ hd[k] \in Statuses
                  /\ ~present[k] => hd[k] = "missing"
                  /\ hd[k] = "fail" => present[k]

Severity(c) == IF c = "SAFE" THEN 0 ELSE IF c = "SUSPICIOUS" THEN 1 ELSE 2

\* C6: the category follows the score by the fixed thresholds (below 30
\* SAFE, from 30 and below 60 SUSPICIOUS, from 60 LIKELY_SPAM), every score
\* has exactly one category and a higher score never a less severe one.
C6_CategoryThresholds ==
    IsSome(result) =>
        LET r == Get(result)
        IN  /\ r.score \in 0..100
            /\ r.category \in Categories
            /\ r.score < 30 <=> r.category = "SAFE"
            /\ (30 <= r.score /\ r.score < 60) <=> r.category = "SUSPICIOUS"
            /\ r.score >= 60 <=> r.category = "LIKELY_SPAM"
            /\ \A s \in 0..r.score :
                  Severity(Categorize(s)) <= Severity(r.category)
            /\ Categorize(SampleOutput.score) = SampleOutput.category

C6_Witness ==
    /\ IsSome(result)
    /\ Get(result).score = 30 /\ Get(result).category = "SUSPICIOUS"
    /\ Len(Get(result).rules_triggered) = 2

=============================================================================
